---- MODULE Spec2Model ----
(***************************************************************************)
(* A model of app.py: the retry decorator, the playlist request handler    *)
(* (index) with its catalog / search / download / transcode calls, and the *)
(* retention thread (cleanup_old_files), all acting on the download root.  *)
(*                                                                         *)
(* Time is counted in whole days.  A request and a cleanup cycle last      *)
(* seconds to minutes, so a day passes only in the cleanup thread's hourly *)
(* sleep and only while no request is in flight: the files of one request  *)
(* are written on one day.  Last-modified times are kept relative to the   *)
(* current day: age[s][f] is today minus the day f was last written, which *)
(* is the value cleanup_old_files computes as now - getmtime(f).           *)
(*                                                                         *)
(* One request is followed from its POST to its response.  Requests share  *)
(* nothing but the download root, in which each has a folder of its own    *)
(* (a fresh uuid4).                                                        *)
(***************************************************************************)
EXTENDS Integers, Sequences, FiniteSets, TLC

\* ---------------------------------------------------------------- bounds
MaxTracks == 2        \* longest playlist
MaxFileAge == 7       \* file ages are counted up to this many days
MaxAttempts == 5      \* SpecRetry: largest `retries` the decorator is given
MaxPages == 2         \* SpecPages: most pages of a playlist
MaxPageLen == 2       \* SpecPages: most items of a page
JitterSteps == 2      \* SpecRetry: the jitter values told apart within a second

\* ------------------------------------------------------ program constants
Retries == 5          \* retry_on_failure(retries=5, ...)
BackoffFactor == 2    \* retry_on_failure(..., backoff_factor=2, ...)
MaxAgeDays == 5       \* timedelta(days=5)

\* ------------------------------------------------------------- variables
VARIABLES
    exists,     \* the session folders present under BASE_DOWNLOAD_FOLDER
    files,      \* files[s]: the file names present in folder s
    age,        \* age[s][f]: days since file f of folder s was last written
    pc,         \* position of the request thread inside index()
    user_id,    \* the user_id of the request in flight
    playlist,   \* what the catalog holds for the submitted playlist_url
    playlist_url, \* request.form['playlist_url'], as the parts the splits tell apart
    tracks,     \* index(): the list returned by fetch_spotify_playlist_tracks
    idx,        \* index(): position of the for loop in tracks
    video_url,  \* index(): the local video_url
    w,          \* the frame of the retry wrapper the request thread is in
    response,   \* what index() returned
    resolved,   \* how the call of fetch_spotify_playlist_tracks ended
    started,    \* number of passes of the for loop begun by this request
    skipped,    \* number of passes that ended in the loop body's except
    trk,        \* what each stage of the current pass of the for loop did
    sw_pc,      \* position of the cleanup thread inside cleanup_old_files()
    folders,    \* cleanup_old_files(): folders of the outer loop still to visit
    folder,     \* cleanup_old_files(): the local folder
    flist,      \* cleanup_old_files(): files of the inner loop still to visit
    file,       \* cleanup_old_files(): the local file
    swDeleted,  \* folders in which the cleanup thread has deleted a file
    swRemoved,  \* folders the cleanup thread has removed
    rw,         \* SpecRetry: the frame of a wrapper called on its own
    rk,         \* SpecRetry: the wrapped function fails on its first rk calls
    jitter,     \* SpecRetry: the `jitter` the decorator is given
    slept,      \* SpecRetry: the delays passed to time.sleep, in JitterSteps-ths of a second
    listed,     \* SpecStore: what list_files returned
    archive,    \* SpecStore: what download_all returned
    pages,      \* SpecPages: the pages of the playlist in the catalog
    results,    \* SpecPages: `results`, as the number of the page it holds, 0 for None
    page_tracks,\* SpecPages: the local `tracks` of fetch_spotify_playlist_tracks
    fpc         \* SpecPages: where the resolver stands, "call" or "loop"

fsVars == <<exists, files, age>>
reqVars == <<pc, user_id, playlist, playlist_url, tracks, idx, video_url, w, response, resolved, started, skipped, trk>>
swVars == <<sw_pc, folders, folder, flist, file, swDeleted, swRemoved>>
retryVars == <<rw, rk, jitter, slept>>
storeVars == <<listed, archive>>
pageVars == <<pages, results, page_tracks, fpc>>
vars == <<fsVars, reqVars, swVars, retryVars, storeVars, pageVars>>

\* ------------------------------------------------------------ retry wrapper
Errors == {"E1", "E2"}

\* mutant: the decorator without @wraps, whose message names the wrapper
ExhaustedMessageBad(func, retries) ==
    <<"wrapper", " failed after ", ToString(retries), " retries.">>

\* f"{func.__name__} failed after {retries} retries."
ExhaustedMessage(func, retries) ==
    <<func, " failed after ", ToString(retries), " retries.">>

\* the frame of wrapper(*args, **kwargs) on entry: attempt = 0
NewWrapper(func, retries) ==
    [func |-> func, retries |-> retries, attempt |-> 0, calls |-> 0,
     sleeps |-> 0, delay |-> 0, status |-> "running", value |-> <<>>,
     lastErr |-> "none", message |-> <<>>]

Ok(v) == [ok |-> TRUE, value |-> v, err |-> "none"]
Fail(e) == [ok |-> FALSE, value |-> <<>>, err |-> e]

\* mutant: `while attempt <= retries`
WrapperPassBad(fr, out) ==
    IF out.ok
    THEN [fr EXCEPT !.calls = @ + 1, !.status = "returned", !.value = out.value]
    ELSE LET a == fr.attempt + 1 IN
         [fr EXCEPT !.calls = @ + 1, !.attempt = a, !.sleeps = @ + 1,
                    !.delay = BackoffFactor ^ a,
                    !.lastErr = out.err,
                    !.status = IF a <= fr.retries THEN "running" ELSE "raised",
                    !.message = IF a <= fr.retries THEN <<>>
                                ELSE ExhaustedMessage(fr.func, fr.retries)]

\* One pass of the while loop: the call of func, and on an exception the
\* increment, the delay computation, the warning and the sleep; then the loop
\* test, and the raise after the loop when it fails.
\* random.uniform(0, 1) is 0 + (1 - 0) * random.random(), and random.random()
\* is in [0.0, 1.0): the values u / JitterSteps
Uniform01 == 0..(JitterSteps - 1)

\* mutant: linear backoff
DelayBad(attempt, jit, u) ==
    (BackoffFactor * attempt) * JitterSteps + (IF jit THEN u ELSE 0)

\* delay = backoff_factor ** attempt; if jitter: delay += random.uniform(0, 1)
Delay(attempt, jit, u) ==
    (BackoffFactor ^ attempt) * JitterSteps + (IF jit THEN u ELSE 0)

\* mutant: `attempt += 1` is missing, so a failing call is repeated for ever
WrapperPassStuck(fr, out) ==
    IF out.ok
    THEN [fr EXCEPT !.calls = @ + 1, !.status = "returned", !.value = out.value]
    ELSE [fr EXCEPT !.calls = @ + 1, !.sleeps = @ + 1,
                    !.delay = BackoffFactor ^ fr.attempt,
                    !.lastErr = out.err]

WrapperPass(fr, out) ==
    IF out.ok
    THEN [fr EXCEPT !.calls = @ + 1, !.status = "returned", !.value = out.value]
    ELSE LET a == fr.attempt + 1 IN
         [fr EXCEPT !.calls = @ + 1, !.attempt = a, !.sleeps = @ + 1,
                    !.delay = BackoffFactor ^ a,
                    !.lastErr = out.err,
                    !.status = IF a < fr.retries THEN "running" ELSE "raised",
                    !.message = IF a < fr.retries THEN <<>>
                                ELSE ExhaustedMessage(fr.func, fr.retries)]

\* --------------------------------------------------------------- catalog
\* The tracks the catalog can hold: {'name': ..., 'artist': ...}.
TrackSet ==
    {[name |-> "Song A", artist |-> "Artist X"],
     [name |-> "Song B", artist |-> "Artist Y"]}

RECURSIVE SeqsUpTo(_, _)
SeqsUpTo(S, n) ==
    IF n = 0 THEN {<<>>}
    ELSE LET shorter == SeqsUpTo(S, n - 1) IN
         shorter \cup {Append(q, x) : q \in {r \in shorter : Len(r) = n - 1}, x \in S}

Playlists == SeqsUpTo(TrackSet, MaxTracks)

\* query = f"{track['name']} {track['artist']}"
Query(track) == <<track.name, " ", track.artist>>

\* os.path.join(output_dir, f"{query}.webm") / f"{query}.mp3", inside output_dir
Webm(query) == <<query, ".webm">>
Mp3(query) == <<query, ".mp3">>
FileNames == {Webm(Query(t)) : t \in TrackSet} \cup {Mp3(Query(t)) : t \in TrackSet}

\* the values of str(uuid.uuid4()) drawn in the run
Sessions == {"u1"}

\* ---------------------------------------------------------- file system
\* open(path, 'w') ... close(): the file exists and was written today
WriteFile(s, f) ==
    /\ files' = [files EXCEPT ![s] = @ \cup {f}]
    /\ age' = [age EXCEPT ![s][f] = 0]

\* os.remove(path) of a file that exists
RemoveFile(s, f) ==
    /\ files' = [files EXCEPT ![s] = @ \ {f}]
    /\ age' = [age EXCEPT ![s][f] = 0]

\* ------------------------------------------- list_files, download_all
\* the file name as one string: the stem followed by the extension
FullName(f) == f[1] \o <<f[2]>>

\* mutant: `'.mp3' in f`
EndsWithBad(name, suffix) == \E i \in DOMAIN name : name[i] = suffix

\* f.endswith('.mp3')
EndsWith(name, suffix) == Len(name) > 0 /\ name[Len(name)] = suffix

\* a reply: its kind, the files it carries, its message or download name, and
\* (for the properties) the <user_id> it answers
NoReply == [kind |-> "none", files |-> {}, name |-> <<>>, uid |-> "none"]
\* jsonify({"status": "error", "message": "No files found for this user."})
NotFound(uid) ==
    [kind |-> "error", files |-> {}, name |-> <<"No files found for this user.">>,
     uid |-> uid]

\* mutant: the folder is not looked for, and a missing one lists as empty
ReplyOfBad(uid, kind, name) ==
    [kind |-> kind,
     files |-> IF uid \in exists
               THEN {f \in files[uid] : EndsWith(FullName(f), ".mp3")} ELSE {},
     name |-> name, uid |-> uid]

\* both handlers: the error when os.path.exists(user_folder) is false, else
\* the entries of os.listdir(user_folder) that end with '.mp3'
ReplyOf(uid, kind, name) ==
    IF uid \notin exists THEN NotFound(uid)
    ELSE [kind |-> kind,
          files |-> {f \in files[uid] : EndsWith(FullName(f), ".mp3")},
          name |-> name, uid |-> uid]

\* GET /files/<user_id>: jsonify({"files": files})
list_files(uid) ==
    /\ listed' = ReplyOf(uid, "files", <<>>)
    /\ UNCHANGED <<fsVars, reqVars, swVars, retryVars, archive, pageVars>>

\* GET /files/<user_id>/download_all: the zip of the folder's MP3 files, sent
\* as f"{user_id}_songs.zip"
download_all(uid) ==
    /\ archive' = ReplyOf(uid, "zip", <<uid, "_songs.zip">>)
    /\ UNCHANGED <<fsVars, reqVars, swVars, retryVars, listed, pageVars>>

\* ------------------------------------------------------------- index()
IdleFrame == NewWrapper("none", Retries)
NewTrk == [apiInv |-> 0, fbInv |-> 0, dlInv |-> 0, convInv |-> 0,
           api |-> "none", fb |-> "none", dl |-> "none", conv |-> "none"]

SuccessEnvelope(uid) ==
    [status |-> "success", user_id |-> uid, message |-> <<"Download complete!">>]
ErrorEnvelope(msg) == [status |-> "error", user_id |-> "none", message |-> msg]
NoResponse == [status |-> "none", user_id |-> "none", message |-> <<>>]

\* mutant: the loop steps over every other track
LoopHeadBad(ts, i, t) ==
    /\ idx' = IF i < Len(ts) THEN i + 1 ELSE i
    /\ IF i <= Len(ts)
       THEN /\ pc' = "api"
            /\ w' = NewWrapper("search_youtube_api", Retries)
            /\ started' = started + 1
            /\ trk' = [NewTrk EXCEPT !.apiInv = 1]
            /\ response' = response
       ELSE /\ pc' = "done"
            /\ w' = IdleFrame
            /\ response' = SuccessEnvelope(user_id)
            /\ trk' = t
            /\ started' = started

\* the head of `for track in tracks`: the next pass begins with the call of
\* search_youtube_api, or the loop is over and index() returns success
LoopHead(ts, i, t) ==
    /\ idx' = i
    /\ IF i <= Len(ts)
       THEN /\ pc' = "api"
            /\ w' = NewWrapper("search_youtube_api", Retries)
            /\ started' = started + 1
            /\ trk' = [NewTrk EXCEPT !.apiInv = 1]
            /\ response' = response
       ELSE /\ pc' = "done"
            /\ w' = IdleFrame
            /\ response' = SuccessEnvelope(user_id)
            /\ trk' = t
            /\ started' = started

\* the playlist URLs submitted: a share link, a link of another kind, and a
\* playlist link with nothing where the id should be
Urls ==
    {<<"https://open.spotify.com", "/playlist/", "37i9dQZF1DX", "?", "si=0a1b">>,
     <<"https://open.spotify.com/album/", "4aawyAB9vmq">>,
     <<"https://open.spotify.com", "/playlist/", "?", "si=0a1b">>}

Positions(str, sep) == {i \in DOMAIN str : str[i] = sep}
First(S) == CHOOSE i \in S : \A j \in S : i <= j

\* str.split(sep)[0]: what precedes the first sep, or all of str
SplitHead(str, sep) ==
    IF Positions(str, sep) = {} THEN str
    ELSE SubSeq(str, 1, First(Positions(str, sep)) - 1)

\* str.split(sep)[1]: what lies between the first sep and the next one;
\* IndexError when str holds no sep
SplitSecond(str, sep) ==
    IF Positions(str, sep) = {} THEN [ok |-> FALSE, val |-> <<>>]
    ELSE LET i == First(Positions(str, sep))
             later == {j \in Positions(str, sep) : j > i}
             e == IF later = {} THEN Len(str) + 1 ELSE First(later)
         IN  [ok |-> TRUE, val |-> SubSeq(str, i + 1, e - 1)]

\* playlist_id = playlist_url.split('/playlist/')[1].split('?')[0]
PlaylistId(url) ==
    LET part == SplitSecond(url, "/playlist/") IN
    IF part.ok THEN [ok |-> TRUE, val |-> SplitHead(part.val, "?")] ELSE part

\* what the catalog holds under the id of the URL: any playlist for an id,
\* nothing to tell apart for the URLs that name none
CatalogOf(url) ==
    IF PlaylistId(url).ok /\ PlaylistId(url).val # <<>> THEN Playlists ELSE {<<>>}

\* the outcomes of one call of fetch_spotify_playlist_tracks: the split raises
\* IndexError before the catalog is called; the catalog refuses an empty id;
\* otherwise the catalog answers with the tracks or fails
FetchOutcomes(url, catalog) ==
    IF ~PlaylistId(url).ok THEN {Fail("IndexError")}
    ELSE IF PlaylistId(url).val = <<>> THEN {Fail("SpotifyException")}
    ELSE {Ok(catalog), Fail("SpotifyException")}

\* POST /: user_id = str(uuid.uuid4()); os.makedirs(user_folder, exist_ok=True);
\* then the call of fetch_spotify_playlist_tracks begins
Submit ==
    /\ pc = "idle"
    /\ \E url \in Urls :
           /\ playlist_url' = url
           /\ \E p \in CatalogOf(url) : playlist' = p
    /\ \E u \in Sessions \ exists :
           /\ user_id' = u
           /\ exists' = exists \cup {u}
    /\ pc' = "fetch"
    /\ w' = NewWrapper("fetch_spotify_playlist_tracks", Retries)
    /\ tracks' = <<>>
    /\ idx' = 0
    /\ video_url' = <<>>
    /\ response' = NoResponse
    /\ resolved' = "none"
    /\ started' = 0
    /\ skipped' = 0
    /\ trk' = NewTrk
    /\ UNCHANGED <<files, age, swVars, retryVars, storeVars, pageVars>>

\* one attempt of fetch_spotify_playlist_tracks under the retry wrapper
FetchAttempt ==
    /\ pc = "fetch" /\ w.status = "running"
    /\ \E out \in FetchOutcomes(playlist_url, playlist) : w' = WrapperPass(w, out)
    /\ UNCHANGED <<fsVars, pc, user_id, playlist, playlist_url, tracks, idx, video_url,
                   response, resolved, started, skipped, trk, swVars, retryVars, storeVars, pageVars>>

\* tracks = fetch_spotify_playlist_tracks(playlist_url) returned
FetchReturned ==
    /\ pc = "fetch" /\ w.status = "returned"
    /\ tracks' = w.value
    /\ resolved' = "returned"
    /\ LoopHead(w.value, 1, trk)
    /\ UNCHANGED <<fsVars, user_id, playlist, playlist_url, video_url, skipped, swVars, retryVars, storeVars, pageVars>>

\* mutant: the catalog failure is logged and the request reports success
FetchRaisedBad ==
    /\ pc = "fetch" /\ w.status = "raised"
    /\ response' = SuccessEnvelope(user_id)
    /\ resolved' = "raised"
    /\ pc' = "done"
    /\ w' = IdleFrame
    /\ UNCHANGED <<fsVars, user_id, playlist, playlist_url, tracks, idx, video_url,
                   started, skipped, trk, swVars, retryVars, storeVars, pageVars>>

\* the outer `except Exception as e`: the error envelope with str(e)
FetchRaised ==
    /\ pc = "fetch" /\ w.status = "raised"
    /\ response' = ErrorEnvelope(w.message)
    /\ resolved' = "raised"
    /\ pc' = "done"
    /\ w' = IdleFrame
    /\ UNCHANGED <<fsVars, user_id, playlist, playlist_url, tracks, idx, video_url,
                   started, skipped, trk, swVars, retryVars, storeVars, pageVars>>

\* one attempt of search_youtube_api: the API answers with an item, with no
\* item (the function raises "No YouTube results found"), or fails
ApiAttempt ==
    /\ pc = "api" /\ w.status = "running"
    /\ \E out \in {Ok(<<"api", Query(tracks[idx])>>), Fail("NoResults"), Fail("HttpError")} :
           w' = WrapperPass(w, out)
    /\ UNCHANGED <<fsVars, pc, user_id, playlist, playlist_url, tracks, idx, video_url,
                   response, resolved, started, skipped, trk, swVars, retryVars, storeVars, pageVars>>

\* video_url = search_youtube_api(query) returned: download_song is called
ApiReturned ==
    /\ pc = "api" /\ w.status = "returned"
    /\ video_url' = w.value
    /\ trk' = [trk EXCEPT !.api = "returned", !.dlInv = @ + 1]
    /\ pc' = "download"
    /\ w' = NewWrapper("download_song", Retries)
    /\ UNCHANGED <<fsVars, user_id, playlist, playlist_url, tracks, idx, response,
                   resolved, started, skipped, swVars, retryVars, storeVars, pageVars>>

\* the inner `except Exception`: search_youtube_yt_dlp is called
ApiRaised ==
    /\ pc = "api" /\ w.status = "raised"
    /\ trk' = [trk EXCEPT !.api = "raised", !.fbInv = @ + 1]
    /\ pc' = "ytdlp"
    /\ w' = NewWrapper("search_youtube_yt_dlp", Retries)
    /\ UNCHANGED <<fsVars, user_id, playlist, playlist_url, tracks, idx, video_url,
                   response, resolved, started, skipped, swVars, retryVars, storeVars, pageVars>>

\* one attempt of search_youtube_yt_dlp
YtdlpAttempt ==
    /\ pc = "ytdlp" /\ w.status = "running"
    /\ \E out \in {Ok(<<"ytdlp", Query(tracks[idx])>>), Fail("NoResults")} :
           w' = WrapperPass(w, out)
    /\ UNCHANGED <<fsVars, pc, user_id, playlist, playlist_url, tracks, idx, video_url,
                   response, resolved, started, skipped, trk, swVars, retryVars, storeVars, pageVars>>

\* video_url = search_youtube_yt_dlp(query) returned: download_song is called
YtdlpReturned ==
    /\ pc = "ytdlp" /\ w.status = "returned"
    /\ video_url' = w.value
    /\ trk' = [trk EXCEPT !.fb = "returned", !.dlInv = @ + 1]
    /\ pc' = "download"
    /\ w' = NewWrapper("download_song", Retries)
    /\ UNCHANGED <<fsVars, user_id, playlist, playlist_url, tracks, idx, response,
                   resolved, started, skipped, swVars, retryVars, storeVars, pageVars>>

\* mutant: the fallback's exception is swallowed where it is raised, and
\* download_song is called with the video_url left by an earlier pass
YtdlpRaisedBad ==
    /\ pc = "ytdlp" /\ w.status = "raised"
    /\ trk' = [trk EXCEPT !.fb = "raised", !.dlInv = @ + 1]
    /\ pc' = "download"
    /\ w' = NewWrapper("download_song", Retries)
    /\ UNCHANGED <<fsVars, user_id, playlist, playlist_url, tracks, idx, video_url, response,
                   resolved, started, skipped, swVars, retryVars, storeVars, pageVars>>

\* search_youtube_yt_dlp raised too: the exception leaves the loop body's try
\* before download_song is reached
YtdlpRaised ==
    /\ pc = "ytdlp" /\ w.status = "raised"
    /\ trk' = [trk EXCEPT !.fb = "raised"]
    /\ pc' = "except"
    /\ w' = IdleFrame
    /\ UNCHANGED <<fsVars, user_id, playlist, playlist_url, tracks, idx, video_url, response,
                   resolved, started, skipped, swVars, retryVars, storeVars, pageVars>>

\* one attempt of download_song, up to the end of ydl.download: it raises, or
\* it has written <query>.webm (yt-dlp makes the folder of outtmpl when it is
\* missing) and convert_to_mp3 is entered, still inside the wrapper's try
DownloadAttempt ==
    /\ pc = "download" /\ w.status = "running"
    /\ \/ /\ w' = WrapperPass(w, Fail("DownloadError"))
          /\ UNCHANGED <<fsVars, pc>>
          /\ trk' = trk
       \/ /\ exists' = exists \cup {user_id}
          /\ WriteFile(user_id, Webm(Query(tracks[idx])))
          /\ pc' = "convert"
          /\ w' = w
          /\ trk' = [trk EXCEPT !.convInv = @ + 1]
    /\ UNCHANGED <<user_id, playlist, playlist_url, tracks, idx, video_url, response,
                   resolved, started, skipped, swVars, retryVars, storeVars, pageVars>>

\* mutant: convert_to_mp3 lets its exception out, into the wrapper's try
ConvertLeavesBad(result) ==
    /\ trk' = [trk EXCEPT !.conv = result]
    /\ w' = WrapperPass(w, IF result = "ok" THEN Ok(<<"None">>) ELSE Fail("CouldntDecode"))
    /\ pc' = "download"

\* convert_to_mp3 is left, by its last statement or through its
\* `except Exception`, which logs and swallows: download_song returns None
ConvertLeaves(result) ==
    /\ trk' = [trk EXCEPT !.conv = result]
    /\ w' = WrapperPass(w, Ok(<<"None">>))
    /\ pc' = "download"

\* audio = AudioSegment.from_file(input_file)
ConvertRead ==
    /\ pc = "convert"
    /\ \/ /\ Webm(Query(tracks[idx])) \in files[user_id]
          /\ pc' = "export"
          /\ UNCHANGED <<w, trk>>
       \/ ConvertLeaves("failed")
    /\ UNCHANGED <<fsVars, user_id, playlist, playlist_url, tracks, idx, video_url,
                   response, resolved, started, skipped, swVars, retryVars, storeVars, pageVars>>

\* audio.export(mp3_output_path, format="mp3")
ConvertExport ==
    /\ pc = "export"
    /\ \/ /\ user_id \in exists
          /\ WriteFile(user_id, Mp3(Query(tracks[idx])))
          /\ pc' = "remove"
          /\ UNCHANGED <<w, trk>>
       \/ /\ ConvertLeaves("failed")
          /\ UNCHANGED <<files, age>>
    /\ UNCHANGED <<exists, user_id, playlist, playlist_url, tracks, idx, video_url,
                   response, resolved, started, skipped, swVars, retryVars, storeVars, pageVars>>

\* mutant: the raw file is left where it is
ConvertRemoveBad ==
    /\ pc = "remove"
    /\ ConvertLeaves("ok")
    /\ UNCHANGED <<fsVars, user_id, playlist, playlist_url, tracks, idx, video_url,
                   response, resolved, started, skipped, swVars, retryVars, storeVars, pageVars>>

\* os.remove(input_file), which raises when the file is gone
ConvertRemove ==
    /\ pc = "remove"
    /\ IF Webm(Query(tracks[idx])) \in files[user_id]
       THEN /\ RemoveFile(user_id, Webm(Query(tracks[idx])))
            /\ ConvertLeaves("ok")
       ELSE /\ ConvertLeaves("unremoved")
            /\ UNCHANGED <<files, age>>
    /\ UNCHANGED <<exists, user_id, playlist, playlist_url, tracks, idx, video_url,
                   response, resolved, started, skipped, swVars, retryVars, storeVars, pageVars>>

\* download_song(video_url, query, user_folder) returned: the next pass
DownloadReturned ==
    /\ pc = "download" /\ w.status = "returned"
    /\ LoopHead(tracks, idx + 1, [trk EXCEPT !.dl = "returned"])
    /\ UNCHANGED <<fsVars, user_id, playlist, playlist_url, tracks, video_url, resolved, skipped,
                   swVars, retryVars, storeVars, pageVars>>

\* mutant: no try around the loop body, so the exception reaches the outer
\* except and ends the request
DownloadRaisedBad ==
    /\ pc = "download" /\ w.status = "raised"
    /\ trk' = [trk EXCEPT !.dl = "raised"]
    /\ pc' = "done"
    /\ response' = ErrorEnvelope(w.message)
    /\ w' = IdleFrame
    /\ UNCHANGED <<fsVars, user_id, playlist, playlist_url, tracks, idx, video_url,
                   resolved, started, skipped, swVars, retryVars, storeVars, pageVars>>

\* download_song raised: the exception leaves the loop body's try
DownloadRaised ==
    /\ pc = "download" /\ w.status = "raised"
    /\ trk' = [trk EXCEPT !.dl = "raised"]
    /\ pc' = "except"
    /\ w' = IdleFrame
    /\ UNCHANGED <<fsVars, user_id, playlist, playlist_url, tracks, idx, video_url, response,
                   resolved, started, skipped, swVars, retryVars, storeVars, pageVars>>

\* `except Exception as e: logging.error(...)` of the loop body: the next pass
ExceptLogged ==
    /\ pc = "except"
    /\ skipped' = skipped + 1
    /\ LoopHead(tracks, idx + 1, trk)
    /\ UNCHANGED <<fsVars, user_id, playlist, playlist_url, tracks, video_url, resolved,
                   swVars, retryVars, storeVars, pageVars>>

index ==
    \/ Submit
    \/ FetchAttempt \/ FetchReturned \/ FetchRaised
    \/ ApiAttempt \/ ApiReturned \/ ApiRaised
    \/ YtdlpAttempt \/ YtdlpReturned \/ YtdlpRaised
    \/ DownloadAttempt \/ ConvertRead \/ ConvertExport \/ ConvertRemove
    \/ DownloadReturned \/ DownloadRaised \/ ExceptLogged

\* ------------------------------------------------- cleanup_old_files()
\* now = datetime.now(); os.listdir(BASE_DOWNLOAD_FOLDER)
SwStart ==
    /\ sw_pc = "start"
    /\ folders' = exists
    /\ sw_pc' = "folder"
    /\ UNCHANGED <<fsVars, reqVars, folder, flist, file, swDeleted, swRemoved, retryVars, storeVars, pageVars>>

\* the head of `for folder`: os.path.isdir(folder_path), os.listdir(folder_path)
\* (only this thread removes folders, so the folder listed is still there)
SwFolder ==
    /\ sw_pc = "folder"
    /\ IF folders = {}
       THEN /\ sw_pc' = "sleep"
            /\ UNCHANGED <<folders, folder, flist>>
       ELSE \E d \in folders :
            /\ folders' = folders \ {d}
            /\ folder' = d
            /\ flist' = files[d]
            /\ sw_pc' = "file"
    /\ UNCHANGED <<fsVars, reqVars, file, swDeleted, swRemoved, retryVars, storeVars, pageVars>>

\* the head of `for file`: os.path.isfile(file_path)
SwFile ==
    /\ sw_pc = "file"
    /\ IF flist = {}
       THEN /\ sw_pc' = "prune"
            /\ UNCHANGED <<flist, file>>
       ELSE \E f \in flist :
            /\ flist' = flist \ {f}
            /\ file' = f
            /\ sw_pc' = IF f \in files[folder] THEN "mtime" ELSE "file"
    /\ UNCHANGED <<fsVars, reqVars, folders, folder, swDeleted, swRemoved, retryVars, storeVars, pageVars>>

\* mutant: `if file_age >= timedelta(days=5)`
TooOldBad(file_age) == file_age >= MaxAgeDays

\* if file_age > timedelta(days=5)
TooOld(file_age) == file_age > MaxAgeDays

\* file_age = now - datetime.fromtimestamp(os.path.getmtime(file_path)), which
\* raises when the file is gone: nothing in the thread catches it
SwMtime ==
    /\ sw_pc = "mtime"
    /\ sw_pc' = IF file \notin files[folder] THEN "dead"
                ELSE IF TooOld(age[folder][file]) THEN "remove" ELSE "file"
    /\ UNCHANGED <<fsVars, reqVars, folders, folder, flist, file, swDeleted,
                   swRemoved, retryVars, storeVars, pageVars>>

\* os.remove(file_path)
SwRemove ==
    /\ sw_pc = "remove"
    /\ IF file \in files[folder]
       THEN /\ RemoveFile(folder, file)
            /\ swDeleted' = swDeleted \cup {folder}
            /\ sw_pc' = "file"
       ELSE /\ sw_pc' = "dead"
            /\ UNCHANGED <<files, age, swDeleted>>
    /\ UNCHANGED <<exists, reqVars, folders, folder, flist, file, swRemoved, retryVars, storeVars, pageVars>>

\* if not os.listdir(folder_path)
SwPrune ==
    /\ sw_pc = "prune"
    /\ sw_pc' = IF files[folder] = {} THEN "rmdir" ELSE "folder"
    /\ UNCHANGED <<fsVars, reqVars, folders, folder, flist, file, swDeleted,
                   swRemoved, retryVars, storeVars, pageVars>>

\* mutant: shutil.rmtree(folder_path), which removes the folder with its files
SwRmdirBad ==
    /\ sw_pc = "rmdir"
    /\ exists' = exists \ {folder}
    /\ files' = [files EXCEPT ![folder] = {}]
    /\ age' = [age EXCEPT ![folder] = [f \in FileNames |-> 0]]
    /\ swRemoved' = swRemoved \cup {folder}
    /\ sw_pc' = "folder"
    /\ UNCHANGED <<reqVars, folders, folder, flist, file, swDeleted, retryVars, storeVars, pageVars>>

\* os.rmdir(folder_path), which raises when the folder is not empty
SwRmdir ==
    /\ sw_pc = "rmdir"
    /\ IF files[folder] = {}
       THEN /\ exists' = exists \ {folder}
            /\ swRemoved' = swRemoved \cup {folder}
            /\ sw_pc' = "folder"
       ELSE /\ sw_pc' = "dead"
            /\ UNCHANGED <<exists, swRemoved>>
    /\ UNCHANGED <<files, age, reqVars, folders, folder, flist, file, swDeleted, retryVars, storeVars, pageVars>>

\* time.sleep(3600): the hour may end a day, which makes every file a day older
SwSleep ==
    /\ sw_pc = "sleep"
    /\ \E d \in (IF pc \in {"idle", "done"} THEN {0, 1} ELSE {0}) :
           age' = [s \in Sessions |-> [f \in FileNames |->
                      IF f \in files[s] /\ age[s][f] + d <= MaxFileAge
                      THEN age[s][f] + d ELSE age[s][f]]]
    /\ sw_pc' = "start"
    /\ UNCHANGED <<exists, files, reqVars, folders, folder, flist, file, swDeleted,
                   swRemoved, retryVars, storeVars, pageVars>>

cleanup_old_files ==
    \/ SwStart \/ SwFolder \/ SwFile \/ SwMtime \/ SwRemove
    \/ SwPrune \/ SwRmdir \/ SwSleep

\* ------------------------------------------------------- specification
Init ==
    /\ exists = {}
    /\ files = [s \in Sessions |-> {}]
    /\ age = [s \in Sessions |-> [f \in FileNames |-> 0]]
    /\ pc = "idle"
    /\ user_id = "none"
    /\ playlist = <<>>
    /\ playlist_url = <<>>
    /\ tracks = <<>>
    /\ idx = 0
    /\ video_url = <<>>
    /\ w = IdleFrame
    /\ response = NoResponse
    /\ resolved = "none"
    /\ started = 0
    /\ skipped = 0
    /\ trk = NewTrk
    /\ sw_pc = "start"
    /\ folders = {}
    /\ folder = "none"
    /\ flist = {}
    /\ file = <<>>
    /\ swDeleted = {}
    /\ swRemoved = {}
    /\ rw = IdleFrame
    /\ rk = 0
    /\ jitter = TRUE
    /\ slept = <<>>
    /\ listed = NoReply
    /\ archive = NoReply
    /\ pages = <<>>
    /\ results = 0
    /\ page_tracks = <<>>
    /\ fpc = "call"

Next == index \/ cleanup_old_files

Spec == Init /\ [][Next]_vars

\* ------------------------------------ the retry wrapper called on its own
\* a function decorated with retry_on_failure(retries=m) that fails on its
\* first rk calls
InitRetry ==
    /\ exists = {}
    /\ files = [s \in Sessions |-> {}]
    /\ age = [s \in Sessions |-> [f \in FileNames |-> 0]]
    /\ pc = "idle"
    /\ user_id = "none"
    /\ playlist = <<>>
    /\ playlist_url = <<>>
    /\ tracks = <<>>
    /\ idx = 0
    /\ video_url = <<>>
    /\ w = IdleFrame
    /\ response = NoResponse
    /\ resolved = "none"
    /\ started = 0
    /\ skipped = 0
    /\ trk = NewTrk
    /\ sw_pc = "start"
    /\ folders = {}
    /\ folder = "none"
    /\ flist = {}
    /\ file = <<>>
    /\ swDeleted = {}
    /\ swRemoved = {}
    /\ \E m \in 1..MaxAttempts : rw = NewWrapper("func", m)
    /\ rk \in 0..(MaxAttempts + 1)
    /\ jitter \in BOOLEAN
    /\ slept = <<>>
    /\ listed = NoReply
    /\ archive = NoReply
    /\ pages = <<>>
    /\ results = 0
    /\ page_tracks = <<>>
    /\ fpc = "call"

\* one pass of the wrapper's loop around func
RetryAttempt ==
    /\ rw.status = "running"
    /\ IF rw.calls < rk
       THEN \E e \in Errors, u \in Uniform01 :
                /\ rw' = WrapperPass(rw, Fail(e))
                /\ slept' = Append(slept, Delay(rw'.attempt, jitter, u))
       ELSE /\ rw' = WrapperPass(rw, Ok(<<"value">>))
            /\ slept' = slept
    /\ UNCHANGED <<fsVars, reqVars, swVars, rk, jitter, storeVars, pageVars>>

NextRetry == RetryAttempt

SpecRetry == InitRetry /\ [][NextRetry]_vars

\* ---- the read-only endpoints called on their own, over any folder content
\* what a session folder may hold: the files of index(), and names that
\* carry ".mp3" elsewhere than at their end, or not at all
StoreEntries ==
    FileNames \cup {<<<<"cover", ".mp3">>, ".webm">>,
                    <<<<".mp3", "list">>, ".part">>,
                    <<<<"notes">>, ".txt">>}

\* the <user_id> path parameters of the requests
RequestIds == Sessions \cup {"u2"}

InitStore ==
    /\ exists \in SUBSET Sessions
    /\ files \in [Sessions -> SUBSET StoreEntries]
    /\ \A s \in Sessions \ exists : files[s] = {}
    /\ age = [s \in Sessions |-> [f \in FileNames |-> 0]]
    /\ pc = "idle"
    /\ user_id = "none"
    /\ playlist = <<>>
    /\ playlist_url = <<>>
    /\ tracks = <<>>
    /\ idx = 0
    /\ video_url = <<>>
    /\ w = IdleFrame
    /\ response = NoResponse
    /\ resolved = "none"
    /\ started = 0
    /\ skipped = 0
    /\ trk = NewTrk
    /\ sw_pc = "start"
    /\ folders = {}
    /\ folder = "none"
    /\ flist = {}
    /\ file = <<>>
    /\ swDeleted = {}
    /\ swRemoved = {}
    /\ rw = IdleFrame
    /\ rk = 0
    /\ jitter = TRUE
    /\ slept = <<>>
    /\ listed = NoReply
    /\ archive = NoReply
    /\ pages = <<>>
    /\ results = 0
    /\ page_tracks = <<>>
    /\ fpc = "call"

NextStore ==
    \/ \E uid \in RequestIds : list_files(uid)
    \/ \E uid \in RequestIds : download_all(uid)

SpecStore == InitStore /\ [][NextStore]_vars

\* ---- fetch_spotify_playlist_tracks under its wrapper, page by page
\* the playlists of the catalog: 1..MaxPages pages of up to MaxPageLen items; a
\* playlist without tracks is one page without items
PageSets ==
    {ps \in SeqsUpTo(SeqsUpTo(TrackSet, MaxPageLen), MaxPages) : Len(ps) >= 1}

InitPages ==
    /\ exists = {}
    /\ files = [s \in Sessions |-> {}]
    /\ age = [s \in Sessions |-> [f \in FileNames |-> 0]]
    /\ pc = "idle"
    /\ user_id = "none"
    /\ playlist = <<>>
    /\ playlist_url = <<>>
    /\ tracks = <<>>
    /\ idx = 0
    /\ video_url = <<>>
    /\ w = IdleFrame
    /\ response = NoResponse
    /\ resolved = "none"
    /\ started = 0
    /\ skipped = 0
    /\ trk = NewTrk
    /\ sw_pc = "start"
    /\ folders = {}
    /\ folder = "none"
    /\ flist = {}
    /\ file = <<>>
    /\ swDeleted = {}
    /\ swRemoved = {}
    /\ rw = NewWrapper("fetch_spotify_playlist_tracks", Retries)
    /\ rk = 0
    /\ jitter = TRUE
    /\ slept = <<>>
    /\ listed = NoReply
    /\ archive = NoReply
    /\ pages \in PageSets
    /\ results = 0
    /\ page_tracks = <<>>
    /\ fpc = "call"

\* mutant: `tracks` outlives the call (a module-level list), so a retried
\* call appends to what the failed one had collected
FetchFirstPageBad ==
    /\ rw.status = "running" /\ fpc = "call"
    /\ \/ /\ results' = 1
          /\ fpc' = "loop"
          /\ UNCHANGED <<rw, page_tracks>>
       \/ /\ rw' = WrapperPass(rw, Fail("SpotifyException"))
          /\ UNCHANGED <<results, page_tracks, fpc>>
    /\ UNCHANGED <<fsVars, reqVars, swVars, rk, jitter, slept, storeVars, pages>>

\* the wrapper calls the function: results = sp.playlist_tracks(playlist_id)
\* raises, or gives the first page and tracks = [] follows
FetchFirstPage ==
    /\ rw.status = "running" /\ fpc = "call"
    /\ \/ /\ results' = 1
          /\ page_tracks' = <<>>
          /\ fpc' = "loop"
          /\ rw' = rw
       \/ /\ rw' = WrapperPass(rw, Fail("SpotifyException"))
          /\ UNCHANGED <<results, page_tracks, fpc>>
    /\ UNCHANGED <<fsVars, reqVars, swVars, rk, jitter, slept, storeVars, pages>>

\* one pass of `while results`: the items of the page are appended, then
\* results = sp.next(results) if results['next'] else None; sp.next may raise
FetchPage ==
    /\ rw.status = "running" /\ fpc = "loop" /\ results # 0
    /\ page_tracks' = page_tracks \o pages[results]
    /\ IF results < Len(pages)
       THEN \/ /\ results' = results + 1
               /\ UNCHANGED <<rw, fpc>>
            \/ /\ rw' = WrapperPass(rw, Fail("NextPageError"))
               /\ fpc' = "call"
               /\ results' = results
       ELSE /\ results' = 0
            /\ UNCHANGED <<rw, fpc>>
    /\ UNCHANGED <<fsVars, reqVars, swVars, rk, jitter, slept, storeVars, pages>>

\* results is None: return tracks
FetchReturn ==
    /\ rw.status = "running" /\ fpc = "loop" /\ results = 0
    /\ rw' = WrapperPass(rw, Ok(page_tracks))
    /\ fpc' = "call"
    /\ UNCHANGED <<fsVars, reqVars, swVars, rk, jitter, slept, storeVars, pages, results, page_tracks>>

NextPages == FetchFirstPage \/ FetchPage \/ FetchReturn

SpecPages == InitPages /\ [][NextPages]_vars

\* ================================================================ claims
InFlight == pc \notin {"idle", "done"}
Carries(msg, d) == \E i \in DOMAIN msg : msg[i] = d
CurQuery == Query(tracks[idx])
FirstOccurrence == \A j \in 1..(idx - 1) : tracks[j] # tracks[idx]

\* C1: when the catalog call returned N tracks, index() begins exactly N
\* passes of its loop, one search_youtube_api call each, whatever the passes
\* do, and returns success; it returns an error only when no pass was begun.
C1_ExactlyNAcquisitions ==
    /\ started <= Len(tracks)
    /\ skipped <= started
    /\ InFlight /\ pc # "fetch" => started = idx /\ trk.apiInv = 1
    /\ pc = "done" /\ resolved = "returned" =>
           /\ tracks = playlist
           /\ started = Len(tracks)
           /\ response.status = "success"
    /\ pc = "done" /\ response.status = "error" => started = 0 /\ resolved = "raised"

\* C1 witness: a two-track playlist whose passes both failed, and the response
\* is there
C1_Witness ==
    pc = "done" /\ Len(tracks) = 2 /\ started = 2 /\ skipped = 2
    /\ response.status = "success"

\* C2: the response is the error envelope exactly when the catalog call
\* failed; otherwise it is the success envelope with the request's user_id.
C2_ErrorIffCatalogFailed ==
    pc = "done" =>
        /\ resolved \in {"returned", "raised"}
        /\ response.status = "error" <=> resolved = "raised"
        /\ resolved = "returned" =>
               /\ response.status = "success"
               /\ response.user_id = user_id
               /\ user_id \in Sessions

\* C2 witness: a success envelope for a request none of whose tracks left an MP3
C2_Witness ==
    pc = "done" /\ response.status = "success" /\ Len(tracks) >= 1
    /\ \A t \in TrackSet : Mp3(Query(t)) \notin files[user_id]

\* C3: with retries = m and a function failing on its first k calls, the
\* wrapper returns the value after k+1 calls and k sleeps when k < m, and
\* raises after exactly m calls when k >= m; func is never called m+1 times.
C3_RetryContract ==
    /\ rw.calls <= rw.retries
    /\ rw.status = "returned" =>
           /\ rk < rw.retries
           /\ rw.calls = rk + 1
           /\ rw.sleeps = rk
           /\ rw.value = <<"value">>
    /\ rw.status = "raised" =>
           /\ rk >= rw.retries
           /\ rw.calls = rw.retries
    /\ rw.status = "running" => rw.calls <= rk /\ rw.calls < rw.retries

\* C3 witness: retries = 3, two failures, then the value, after two sleeps
C3_Witness ==
    rw.retries = 3 /\ rk = 2 /\ rw.status = "returned" /\ rw.calls = 3 /\ rw.sleeps = 2

\* C4 as claimed: the exception raised after the last attempt carries the
\* description of the last failure of func.
C4_CarriesLastFailure ==
    rw.status = "raised" => Carries(rw.message, rw.lastErr)

\* C4 as amended: the exception raised after the last attempt says only which
\* function failed and after how many retries; it carries no failure's
\* description.
C4_MessageNamesFunctionOnly ==
    rw.status = "raised" =>
        /\ rw.lastErr \in Errors
        /\ rw.message = <<rw.func, " failed after ", ToString(rw.retries), " retries.">>
        /\ \A e \in Errors : ~Carries(rw.message, e)

\* C4 witness: the wrapper gave up after three failures
C4_Witness ==
    rw.status = "raised" /\ rw.retries = 3 /\ rw.lastErr = "E2"

\* C5 as claimed: once the API answered a query with zero results,
\* search_youtube_api has failed for good after that one call, with no sleep.
C5_ZeroResultsNoRetry ==
    pc = "api" /\ w.lastErr = "NoResults" =>
        w.status = "raised" /\ w.calls = 1 /\ w.sleeps = 0

\* C6: search_youtube_yt_dlp is called once when search_youtube_api raised
\* and not at all when it returned; when both raised, download_song is not
\* called, the folder holds no file of the track, and the response is success.
C6_TiersOrdered ==
    /\ trk.fbInv <= 1
    /\ trk.fbInv = 1 <=> trk.api = "raised"
    /\ pc = "ytdlp" => trk.api = "raised" /\ trk.dlInv = 0
    /\ trk.api = "returned" => trk.fb = "none"
    /\ trk.fb = "raised" =>
           /\ trk.dlInv = 0 /\ trk.dl = "none"
           /\ pc \in {"except", "done"}
           /\ pc = "except" /\ FirstOccurrence =>
                  /\ Webm(CurQuery) \notin files[user_id]
                  /\ Mp3(CurQuery) \notin files[user_id]
           /\ pc = "done" => response.status = "success"

\* C6 witness: both tiers failed for the second track of a playlist
C6_Witness ==
    pc = "except" /\ idx = 2 /\ trk.api = "raised" /\ trk.fb = "raised"

\* C7: the cleanup thread deletes a file exactly when the age it computes
\* for it is strictly more than five days.
C7_DeletedIffOlder ==
    [][/\ (sw_pc = "mtime" /\ sw_pc' # "mtime" /\ file \in files[folder]) =>
              /\ age[folder][file] > 5 => sw_pc' = "remove"
              /\ age[folder][file] <= 5 => sw_pc' = "file" /\ file \in files'[folder]
       /\ (sw_pc = "remove" /\ sw_pc' = "file") =>
              /\ age[folder][file] > 5
              /\ file \notin files'[folder]
       /\ \A s \in Sessions : \A f \in files[s] :
              (f \notin files'[s] /\ sw_pc' # sw_pc) =>
                  sw_pc = "remove" /\ s = folder /\ f = file /\ age[s][f] > 5
      ]_vars

\* C7 witness: the thread is about to remove a file six days old
C7_Witness ==
    sw_pc = "remove" /\ file \in files[folder] /\ age[folder][file] = 6

\* C8 as claimed: a folder the cleanup thread removed held a file that the
\* thread deleted for its age.
C8_RemovedHadExpiredFile == swRemoved \subseteq swDeleted

\* C8 as amended: the cleanup thread removes a folder only when the folder
\* holds no entry at that moment; the folder need not ever have held a file
\* the thread deleted.
C8_RemovedOnlyWhenEmpty ==
    [][\A s \in Sessions :
           (s \in exists /\ s \notin exists') =>
               /\ sw_pc = "rmdir" /\ folder = s
               /\ files[s] = {} /\ files'[s] = {}
               /\ s \in swRemoved'
      ]_vars

\* C8 witness: a folder removed after the thread deleted its last old file
C8_Witness ==
    \E s \in Sessions : s \in swRemoved /\ s \in swDeleted /\ s \notin exists

\* C9 as claimed: while the request is in flight its folder exists, and the
\* cleanup thread deletes nothing in it.
C9_InFlightFolderKept ==
    InFlight => user_id \in exists /\ user_id \notin swRemoved

\* C10 as claimed: the cleanup thread never stops: every cycle it begins
\* reaches its sleep, whatever the request thread does meanwhile.
C10_SweeperNeverDies == sw_pc # "dead"

\* C11: a listing that list_files returns holds exactly the entries of the
\* session's folder whose name ends with ".mp3": every such entry, and no other
C11_ListsExactlyMp3 ==
    listed.kind = "files" =>
        /\ listed.uid \in exists
        /\ listed.files = {f \in files[listed.uid] : f[2] = ".mp3"}

\* a folder with an MP3, a raw file and a name carrying ".mp3" in its middle
\* has been listed
C11_Witness ==
    /\ listed.kind = "files"
    /\ \E f \in files[listed.uid] : f[2] = ".mp3"
    /\ \E f \in files[listed.uid] : f[2] = ".webm" /\ ".mp3" \in {f[1][i] : i \in DOMAIN f[1]}

\* C12: list_files and download_all answer "No files found for this user."
\* exactly when the session's folder does not exist; an archive is never
\* returned for an id without a folder; with the folder there, both return
\* their normal result (the listing, the archive named after the id)
C12_NotFoundIffNoFolder ==
    /\ listed.kind # "none" =>
          /\ listed.kind = "error" <=> listed.uid \notin exists
          /\ listed.kind = "error" => listed = NotFound(listed.uid)
          /\ listed.uid \in exists => listed.kind = "files"
    /\ archive.kind # "none" =>
          /\ archive.kind = "error" <=> archive.uid \notin exists
          /\ archive.kind = "error" => archive = NotFound(archive.uid)
          /\ archive.kind = "zip" => archive.uid \in exists
          /\ archive.uid \in exists =>
                /\ archive.kind = "zip"
                /\ archive.name = <<archive.uid, "_songs.zip">>

\* both endpoints have answered, one for a folder that exists and one for a
\* folder that does not
C12_Witness ==
    /\ listed.kind # "none" /\ archive.kind # "none"
    /\ (listed.uid \in exists) # (archive.uid \in exists)

\* C13: when the catalog call fails for good the request goes from resolving
\* straight to its failed end: no pass of the track loop was begun and no file
\* written, the reply is the error envelope carrying the resolver's error, and
\* the session's folder is still on disk
C13_CatalogFailureKeepsFolder ==
    [][(pc = "fetch" /\ w.status = "raised" /\ pc' = "done") =>
          /\ started' = 0
          /\ trk' = NewTrk
          /\ files'[user_id] = {}
          /\ response' = ErrorEnvelope(
                 ExhaustedMessage("fetch_spotify_playlist_tracks", Retries))
          /\ user_id \in exists']_vars

\* the calls of the catalog made so far by the running resolver: one per call
\* of the function once the split has given an id, none when the split raises
CatalogCalls == IF PlaylistId(playlist_url).ok THEN w.calls ELSE 0

\* C14: a playlist URL that does not parse to a non-empty id fails before any
\* I/O: no session folder is made for it, the catalog is not called, and no
\* retry delay is slept
C14_BadUrlFailsBeforeIO ==
    (pc # "idle" /\ ~(PlaylistId(playlist_url).ok /\ PlaylistId(playlist_url).val # <<>>)) =>
        /\ user_id \notin exists \cup swRemoved
        /\ pc = "fetch" => (CatalogCalls = 0 /\ w.sleeps = 0)
        /\ pc \in {"fetch", "done"}
        /\ pc = "done" => response.status = "error"

\* the file names of the tracks at positions 1..n of ts
NamesUpTo(ts, n) ==
    UNION {{Webm(Query(ts[j])), Mp3(Query(ts[j]))} : j \in 1..n}

\* C15: the tracks are processed in the order of the catalog and strictly one
\* at a time: the loop runs over the sequence the catalog returned, the pass
\* in progress is the idx-th begun and works on tracks[idx] alone, idx moves
\* by one and only when the pass before it is over, and no file of a later
\* track exists before its pass
C15_InOrderOneAtATime ==
    /\ [](pc \in {"api", "ytdlp", "download", "convert", "export", "remove", "except"} =>
            /\ tracks = playlist
            /\ idx \in 1..Len(tracks)
            /\ started = idx
            /\ files[user_id] \subseteq NamesUpTo(tracks, idx)
            /\ pc \in {"download", "convert", "export", "remove"} =>
                   video_url[2] = Query(tracks[idx]))
    /\ [][/\ idx' # idx =>
              /\ idx' = idx + 1
              /\ \/ pc = "fetch" /\ w.status = "returned"
                 \/ pc = "download" /\ w.status = "returned"
                 \/ pc = "except"
          /\ (InFlight /\ files'[user_id] # files[user_id] /\ idx' = idx /\ idx >= 1) =>
                 files'[user_id] \subseteq
                     files[user_id] \cup {Webm(CurQuery), Mp3(CurQuery)}]_vars

\* the pass of the second of two different tracks has written its raw file
\* while the MP3 of the first is in the folder
C15_Witness ==
    /\ pc = "convert" /\ idx = 2
    /\ tracks[1] # tracks[2]
    /\ Mp3(Query(tracks[1])) \in files[user_id]
    /\ Webm(Query(tracks[2])) \in files[user_id]

\* the files of folder s whose stem is q and whose extension is ext
WithStem(s, q, ext) == {f \in files[s] : f[1] = q /\ f[2] = ext}

\* C16: when download_song returns for a track whose download and transcode
\* both succeeded, the session's folder holds <stem>.mp3 and no longer holds
\* <stem>.webm; and at every moment the folder holds at most one raw file and
\* at most one MP3 for each stem, and nothing else
C16_Mp3ReplacesRaw ==
    /\ (pc = "download" /\ w.status = "returned" /\ trk.conv = "ok") =>
          /\ user_id \in exists
          /\ Mp3(CurQuery) \in files[user_id]
          /\ Webm(CurQuery) \notin files[user_id]
    /\ \A s \in Sessions :
          /\ files[s] \subseteq FileNames
          /\ \A t \in TrackSet :
                /\ Cardinality(WithStem(s, Query(t), ".webm")) <= 1
                /\ Cardinality(WithStem(s, Query(t), ".mp3")) <= 1

\* download_song has returned after a download and a transcode that succeeded
C16_Witness ==
    /\ pc = "download" /\ w.status = "returned" /\ trk.conv = "ok"
    /\ Mp3(CurQuery) \in files[user_id]

\* C17: the transcode is attempted at most once for a download that succeeded
\* and is never retried; its failure is swallowed: download_song returns
\* without another download attempt and without raising to index(), the track
\* is left without an MP3, and the request goes on with the next track
C17_TranscodeOnceAndSwallowed ==
    /\ [](/\ trk.convInv <= 1
          /\ trk.conv # "none" => trk.convInv = 1
          /\ pc \in {"convert", "export", "remove"} =>
                 trk.convInv = 1 /\ trk.conv = "none" /\ w.status = "running"
          /\ (trk.conv = "failed" /\ pc # "done") =>
                 /\ pc = "download" /\ w.func = "download_song"
                 /\ w.status = "returned"
                 /\ FirstOccurrence => Mp3(CurQuery) \notin files[user_id]
          /\ (trk.conv = "failed" /\ pc = "done") =>
                 trk.dl = "returned" /\ response = SuccessEnvelope(user_id))
    /\ [][(trk.conv = "failed" /\ pc = "download" /\ pc' # pc) =>
              /\ idx' = idx + 1
              /\ skipped' = skipped
              /\ pc' = IF idx < Len(tracks) THEN "api" ELSE "done"]_vars

\* the transcode of the first of two tracks has failed after a download that
\* succeeded at its second attempt, and download_song has returned
C17_Witness ==
    /\ pc = "download" /\ w.status = "returned" /\ trk.conv = "failed"
    /\ w.calls = 2
    /\ idx = 1 /\ Len(tracks) = 2

\* the items of the pages ps, page after page
RECURSIVE Flatten(_)
Flatten(ps) == IF ps = <<>> THEN <<>> ELSE Head(ps) \o Flatten(Tail(ps))

\* C18: the resolver returns the tracks of all pages of the playlist in page
\* order, each once, following the next-page link until there is none; it does
\* so too when a page fetch has failed part-way and the whole call was made
\* again (nothing of the failed call is kept); a playlist without tracks gives
\* the empty sequence
C18_AllPagesInOrderOnce ==
    /\ rw.status = "returned" =>
          /\ rw.value = Flatten(pages)
          /\ Len(rw.value) = Len(Flatten(pages))
          /\ Flatten(pages) = <<>> => rw.value = <<>>
    /\ (rw.status = "running" /\ fpc = "loop") =>
          page_tracks = Flatten(SubSeq(pages, 1, IF results = 0 THEN Len(pages) ELSE results - 1))

\* the call that returned came after one that failed at the second page of a
\* playlist whose pages all hold items
C18_Witness ==
    /\ rw.status = "returned"
    /\ rw.lastErr = "NextPageError"
    /\ Len(pages) = 2
    /\ \A i \in DOMAIN pages : pages[i] # <<>>
    /\ rw.value = pages[1] \o pages[2]

\* the steps the wrapper frame w can still take: four for each failure it can
\* still absorb (a download attempt that succeeds is followed by the three
\* steps of convert_to_mp3), none once it has returned or raised
FrameRank ==
    IF w.status # "running" THEN 0
    ELSE 4 * (w.retries - w.attempt) +
         (CASE pc = "convert" -> 3 [] pc = "export" -> 2 [] pc = "remove" -> 1 [] OTHER -> 4)

StageSize == 4 * Retries + 5
PassSize == 5 * StageSize

\* the stages of a pass, in the order the pass can go through them
StageNo ==
    CASE pc = "api" -> 4
      [] pc = "ytdlp" -> 3
      [] pc \in {"download", "convert", "export", "remove"} -> 2
      [] OTHER -> 1

\* a bound on the steps index() can still take
Rank ==
    CASE pc = "done" -> 0
      [] pc \in {"idle", "fetch"} -> Len(playlist) * PassSize + FrameRank + 1
      [] OTHER -> (Len(tracks) - idx) * PassSize + StageNo * StageSize + FrameRank

\* C19: every request ends, completed or failed, if the external calls return:
\* while it is in flight it can always take a step and every step lowers a
\* bound on the steps left; the catalog call and, for each track, the primary
\* search, the fallback search and the download are each invoked at most once
\* and called at most Retries times; and every invocation starts with its
\* own full budget, whatever the invocations before it have used
C19_RequestEnds ==
    /\ [](/\ Rank >= 0
          /\ InFlight => ENABLED index
          /\ w.calls <= Retries /\ w.attempt <= Retries
          /\ w.status = "raised" => w.calls = Retries
          /\ trk.apiInv <= 1 /\ trk.fbInv <= 1 /\ trk.dlInv <= 1
          /\ pc = "done" => response.status \in {"success", "error"})
    /\ [][(InFlight /\ index) => Rank' < Rank]_vars
    /\ [][w'.func # w.func => (w'.calls = 0 /\ w'.attempt = 0)]_vars

\* a request of two tracks has ended after its last download used up its
\* whole budget, as the first track's had
C19_Witness ==
    /\ pc = "done" /\ Len(tracks) = 2
    /\ skipped = 2
    /\ trk.dl = "raised"

\* C20: the wrapper sleeps once after every failed attempt, the last one
\* included, so f failures give f delays; without jitter the i-th delay is
\* BackoffFactor^i seconds (2, 4, 8, 16, 32 for the five attempts of the
\* default); with jitter each delay is that plus a value in [0, 1)
C20_BackoffDelays ==
    /\ Len(slept) = rw.sleeps
    /\ Len(slept) = rw.attempt
    /\ Len(slept) = IF rw.status = "returned" THEN rw.calls - 1 ELSE rw.calls
    /\ rw.status = "raised" => Len(slept) = rw.retries
    /\ \A i \in DOMAIN slept :
          IF jitter
          THEN /\ slept[i] >= (BackoffFactor ^ i) * JitterSteps
               /\ slept[i] < (BackoffFactor ^ i + 1) * JitterSteps
          ELSE slept[i] = (BackoffFactor ^ i) * JitterSteps
    /\ (~jitter /\ rw.status = "raised" /\ rw.retries = Retries) =>
          slept = [i \in 1..5 |-> <<2, 4, 8, 16, 32>>[i] * JitterSteps]

\* the default wrapper without jitter has given up after five failures and
\* five sleeps, the last of 32 seconds
C20_Witness ==
    /\ ~jitter /\ rw.retries = Retries /\ rw.status = "raised"
    /\ Len(slept) = 5
    /\ slept[5] = 32 * JitterSteps
====
